---- MODULE Spec2Model ----
(***************************************************************************)
(* Dynamic-tracing quantization (torch/quantization) and the reference     *)
(* quantized layers (torch/nn/quantized/_reference) as state machines.     *)
(*                                                                         *)
(* Part I  : prepare / convert wrappers, the op registry lookup, the       *)
(*           seen-operation ledger and its positional consistency check.   *)
(* Part II : reference Linear / ConvNd construction, get_weight, state     *)
(*           save / load.                                                  *)
(*                                                                         *)
(* Real numbers are fixed point: a value v stands for v / Res.             *)
(***************************************************************************)
EXTENDS Integers, Sequences, FiniteSets, TLC

VARIABLES
    callerModel,      \* the float model handed to prepare: "float" | "observed"
    prepared,         \* the model prepare returned: "none" | "instrumented" | "swapped"
    quantized,        \* TRUE once convert has returned a model
    lastCall,         \* the last prepare/convert call: [fn, inplace, raised]
    mode,             \* the mode of the running / last forward pass:
                      \* "NONE" | "RECORDING" | "VERIFYING"
    idx_to_seen_ops,  \* the ledger: a sequence of SeenOp
    idx,              \* the ledger index of the running forward pass
    pc,               \* "idle" | "running" | "failed"
    err,              \* the error the running / last forward pass raised
    live,             \* the operations the running / last forward pass executed
    example_trace,    \* the operations the pass on example_inputs executed
    layer,            \* the reference layer under construction / in use
    ctor,             \* the last constructor call: [kind, weight_qparams, raised]
    dequant,          \* the last get_weight() / forward() outcome
    state_dict,       \* the last state_dict() outcome
    target,           \* the layer a state was loaded into
    loadOut           \* the last load: [done, missing_keys, unexpected_keys]

traceVars == <<callerModel, prepared, quantized, lastCall, mode, idx_to_seen_ops,
               idx, pc, err, live, example_trace>>
layerVars == <<layer, ctor, dequant, state_dict, target, loadOut>>
vars == <<callerModel, prepared, quantized, lastCall, mode, idx_to_seen_ops,
          idx, pc, err, live, example_trace, layer, ctor, dequant, state_dict, target, loadOut>>

(***************************************************************************)
(* Bounds of the model.                                                    *)
(***************************************************************************)
\* the longest forward pass explored, in executed operations
MaxOps == 3
\* fixed-point resolution: the real number 1.0 is Res
Res == 4
\* weight elements are explored this far (in 1/Res) around 0.0 and 255.0
WSpan == 6

(***************************************************************************)
(* Part I.  Op registry.                                                   *)
(***************************************************************************)
\* The registered tables (mappings.py): functions matched by identity,
\* module types matched by isinstance.
functions_supported_by_quantization == {"relu", "add"}

module_types_supported_by_quantization == {"Conv2d", "Linear"}

\* The method resolution order of the module classes a traced model may hold:
\* MyConv2d subclasses Conv2d; Dropout is a module type the tables do not hold.
Mro(t) ==
    CASE t = "Conv2d"   -> {"Conv2d", "Module"}
      [] t = "Linear"   -> {"Linear", "Module"}
      [] t = "MyConv2d" -> {"MyConv2d", "Conv2d", "Module"}
      [] t = "Dropout"  -> {"Dropout", "Module"}
      [] OTHER          -> {}

\* What a forward pass may execute: a function call or a module call.
Func(f) == [kind |-> "func", type |-> f]
Mod(t)  == [kind |-> "mod", type |-> t]
Candidates ==
    {Func("relu"), Func("reshape"),
     Mod("Conv2d"), Mod("Linear"), Mod("MyConv2d"), Mod("Dropout")}

isinstance(c, module_type) == c.kind = "mod" /\ module_type \in Mro(c.type)

\* A lookup that matches module types exactly instead of by isinstance.
func_or_mod_needs_quantization_exact(func_or_mod) ==
    \/ func_or_mod.kind = "func" /\ func_or_mod.type \in functions_supported_by_quantization
    \/ \E module_type \in module_types_supported_by_quantization :
          func_or_mod.kind = "mod" /\ func_or_mod.type = module_type

func_or_mod_needs_quantization(func_or_mod) ==
    \/ func_or_mod.kind = "func" /\ func_or_mod.type \in functions_supported_by_quantization
    \/ \E module_type \in module_types_supported_by_quantization :
          isinstance(func_or_mod, module_type)

(***************************************************************************)
(* Errors of a forward pass.                                               *)
(***************************************************************************)
NoError == [exc |-> "none", text |-> "none", names |-> <<>>]

\* A not-found error that names no operation.
_raise_obs_not_found_error_anon(func) ==
    [exc |-> "RuntimeError", text |-> "fewer_operations_in_previous_runs", names |-> <<>>]

_raise_obs_not_found_error(func) ==
    [exc |-> "RuntimeError", text |-> "fewer_operations_in_previous_runs",
     names |-> <<func.type>>]

\* A mismatch error that names the encountered operation twice.
_raise_obs_op_mismatch_same(func, prev_op) ==
    [exc |-> "RuntimeError", text |-> "previously_recorded_operation_was",
     names |-> <<func.type, func.type>>]

_raise_obs_op_mismatch(func, prev_op) ==
    [exc |-> "RuntimeError", text |-> "previously_recorded_operation_was",
     names |-> <<func.type, prev_op>>]

\* A ledger entry that keeps the metaclass of the operation, not its type.
SeenOpMetaType(i, type, input_tensor_ids, output_tensor_ids) ==
    [idx |-> i, type |-> "type", input_tensor_ids |-> input_tensor_ids,
     output_tensor_ids |-> output_tensor_ids]

SeenOp(i, type, input_tensor_ids, output_tensor_ids) ==
    [idx |-> i, type |-> type, input_tensor_ids |-> input_tensor_ids,
     output_tensor_ids |-> output_tensor_ids]

(***************************************************************************)
(* The generic framework steps the wrappers call first.  With inplace they *)
(* work on the model they are given, otherwise on a deep copy of it.       *)
(***************************************************************************)
torch_quantization_prepare(model, inplace) ==
    [given |-> IF inplace THEN "observed" ELSE model, returned |-> "observed"]

torch_quantization_convert(module, inplace) ==
    [given |-> IF inplace THEN "swapped" ELSE module, returned |-> "swapped"]

PipelineCall(fn, inplace, raised) == [fn |-> fn, inplace |-> inplace, raised |-> raised]

\* A prepare that wraps the model but never runs it on example_inputs.
prepareWithoutObservation(inplace, example_inputs) ==
    /\ prepared = "none" /\ pc = "idle" /\ mode = "NONE"
    /\ UNCHANGED <<quantized, idx_to_seen_ops, err, live, example_trace, mode, idx, pc>>
    /\ UNCHANGED layerVars
    /\ IF example_inputs = "None"
       THEN /\ lastCall' = PipelineCall("prepare", inplace, "AssertionError")
            /\ UNCHANGED <<callerModel, prepared>>
       ELSE LET g == torch_quantization_prepare(callerModel, inplace) IN
            /\ callerModel' = g.given
            /\ IF inplace
               THEN /\ lastCall' = PipelineCall("prepare", inplace, "AssertionError")
                    /\ UNCHANGED prepared
               ELSE /\ lastCall' = PipelineCall("prepare", inplace, "none")
                    /\ prepared' = "instrumented"

(***************************************************************************)
(* prepare(model, example_inputs, inplace): the two assertions, the        *)
(* generic prepare between them, then add_auto_observation, which runs the *)
(* model once on example_inputs in RECORDING mode.                         *)
(***************************************************************************)
prepare(inplace, example_inputs) ==
    /\ prepared = "none" /\ pc = "idle" /\ mode = "NONE"
    /\ UNCHANGED <<quantized, prepared, idx_to_seen_ops, err, live, example_trace>>
    /\ UNCHANGED layerVars
    /\ IF example_inputs = "None"
       THEN /\ lastCall' = PipelineCall("prepare", inplace, "AssertionError")
            /\ UNCHANGED <<callerModel, mode, idx, pc>>
       ELSE LET g == torch_quantization_prepare(callerModel, inplace) IN
            /\ callerModel' = g.given
            /\ IF inplace
               THEN /\ lastCall' = PipelineCall("prepare", inplace, "AssertionError")
                    /\ UNCHANGED <<mode, idx, pc>>
               ELSE /\ lastCall' = PipelineCall("prepare", inplace, "none")
                    /\ mode' = "RECORDING"
                    /\ idx' = 0
                    /\ pc' = "running"

(***************************************************************************)
(* convert(module, inplace): the generic convert, the assertion, then      *)
(* add_auto_convert.                                                       *)
(***************************************************************************)
convert(inplace) ==
    /\ prepared # "none" /\ pc # "running" /\ ~quantized
    /\ UNCHANGED <<callerModel, mode, idx_to_seen_ops, idx, pc, err, live, example_trace>>
    /\ UNCHANGED layerVars
    /\ LET g == torch_quantization_convert(prepared, inplace) IN
       /\ prepared' = g.given
       /\ IF inplace
          THEN /\ lastCall' = PipelineCall("convert", inplace, "AssertionError")
               /\ UNCHANGED quantized
          ELSE /\ lastCall' = PipelineCall("convert", inplace, "none")
               /\ quantized' = TRUE

(***************************************************************************)
(* A forward call of the instrumented model, after the first.              *)
(***************************************************************************)
BeginForward ==
    /\ prepared # "none" /\ pc # "running"
    /\ mode' = "VERIFYING"
    /\ idx' = 0
    /\ err' = NoError
    /\ live' = <<>>
    /\ pc' = "running"
    /\ UNCHANGED <<callerModel, prepared, quantized, lastCall, idx_to_seen_ops, example_trace>>
    /\ UNCHANGED layerVars

(***************************************************************************)
(* The interception hook, run for every function or module call of the     *)
(* running forward pass.                                                   *)
(***************************************************************************)
RecordOp(c) ==
    /\ idx_to_seen_ops' = Append(idx_to_seen_ops, SeenOp(idx, c.type, <<idx>>, <<idx + 1>>))
    /\ idx' = idx + 1
    /\ UNCHANGED <<err, pc>>

CheckOp(c) ==
    IF idx >= Len(idx_to_seen_ops)
    THEN /\ err' = _raise_obs_not_found_error(c)
         /\ pc' = "failed"
         /\ UNCHANGED <<idx, idx_to_seen_ops>>
    ELSE IF idx_to_seen_ops[idx + 1].type # c.type
    THEN /\ err' = _raise_obs_op_mismatch(c, idx_to_seen_ops[idx + 1].type)
         /\ pc' = "failed"
         /\ UNCHANGED <<idx, idx_to_seen_ops>>
    ELSE /\ idx' = idx + 1
         /\ UNCHANGED <<err, pc, idx_to_seen_ops>>

EncounterOp(c) ==
    /\ pc = "running" /\ Len(live) < MaxOps
    /\ live' = Append(live, c)
    /\ UNCHANGED <<callerModel, prepared, quantized, lastCall, mode, example_trace>>
    /\ UNCHANGED layerVars
    /\ IF ~func_or_mod_needs_quantization(c)
       THEN UNCHANGED <<idx, idx_to_seen_ops, err, pc>>
       ELSE IF mode = "RECORDING" THEN RecordOp(c) ELSE CheckOp(c)

\* The forward pass returns; the first one hands the instrumented model out.
EndForward ==
    /\ pc = "running"
    /\ pc' = "idle"
    /\ prepared' = IF mode = "RECORDING" THEN "instrumented" ELSE prepared
    /\ example_trace' = IF mode = "RECORDING" THEN live ELSE example_trace
    /\ UNCHANGED <<callerModel, quantized, lastCall, mode, idx_to_seen_ops, idx, err, live>>
    /\ UNCHANGED layerVars

TraceNext ==
    \/ \E inplace \in BOOLEAN, example_inputs \in {"None", "A"} : prepare(inplace, example_inputs)
    \/ \E inplace \in BOOLEAN : convert(inplace)
    \/ BeginForward
    \/ \E c \in Candidates : EncounterOp(c)
    \/ EndForward

(***************************************************************************)
(* Part II.  Reference quantized layers.                                   *)
(***************************************************************************)
SupportedQschemes == {"None", "per_tensor_affine", "per_channel_affine"}

QparamKeys ==
    {"weight_qscheme", "weight_dtype", "weight_scale", "weight_zero_point", "weight_axis"}

\* weight_qparams = None
NoneArg == [none |-> TRUE]

\* Default parameters with the signed dtype in place of the unsigned one.
DefaultWeightQparamsQint8 ==
    [qscheme |-> "per_tensor_affine", dtype |-> "qint8", scale |-> <<Res>>, zero_point |-> <<0>>]

DefaultWeightQparams ==
    [qscheme |-> "per_tensor_affine", dtype |-> "quint8", scale |-> <<Res>>, zero_point |-> <<0>>]

\* The outcome of the weight_qparams part of a constructor: the exception it
\* raised and the attributes and buffers set on self by then.
CtorOutcome(raised, attrs) == [raised |-> raised, attrs |-> attrs]

\* A constructor whose assertion also admits the symmetric schemes.
Linear__init__Lax(weight_qparams) ==
    LET qp == IF weight_qparams = NoneArg THEN DefaultWeightQparams ELSE weight_qparams
        plain == [weight_qscheme |-> qp.qscheme, weight_dtype |-> qp.dtype]
        bufs == [weight_scale |-> qp.scale, weight_zero_point |-> qp.zero_point]
    IN  IF qp.qscheme \notin SupportedQschemes \cup {"per_tensor_symmetric", "per_channel_symmetric"}
        THEN CtorOutcome("AssertionError", plain)
        ELSE IF qp.qscheme = "None"
        THEN CtorOutcome("none", plain)
        ELSE IF qp.qscheme = "per_channel_affine"
        THEN IF "axis" \in DOMAIN qp
             THEN CtorOutcome("none", plain @@ bufs @@ [weight_axis |-> qp.axis])
             ELSE CtorOutcome("KeyError", plain @@ bufs)
        ELSE CtorOutcome("none", plain @@ bufs @@ [weight_axis |-> 0])

\* Linear.__init__, after nn.Linear.__init__
Linear__init__(weight_qparams) ==
    LET qp == IF weight_qparams = NoneArg THEN DefaultWeightQparams ELSE weight_qparams
        plain == [weight_qscheme |-> qp.qscheme, weight_dtype |-> qp.dtype]
        bufs == [weight_scale |-> qp.scale, weight_zero_point |-> qp.zero_point]
    IN  IF qp.qscheme \notin SupportedQschemes
        THEN CtorOutcome("AssertionError", plain)
        ELSE IF qp.qscheme = "None"
        THEN CtorOutcome("none", plain)
        ELSE IF qp.qscheme = "per_channel_affine"
        THEN IF "axis" \in DOMAIN qp
             THEN CtorOutcome("none", plain @@ bufs @@ [weight_axis |-> qp.axis])
             ELSE CtorOutcome("KeyError", plain @@ bufs)
        ELSE CtorOutcome("none", plain @@ bufs @@ [weight_axis |-> 0])

\* _ConvNd._init_weight_qparams, called by Conv1d / Conv2d / Conv3d.__init__
_init_weight_qparams(weight_qparams) ==
    LET qp == IF weight_qparams = NoneArg THEN DefaultWeightQparams ELSE weight_qparams
        plain == [weight_qscheme |-> qp.qscheme, weight_dtype |-> qp.dtype]
        bufs == [weight_scale |-> qp.scale, weight_zero_point |-> qp.zero_point]
    IN  IF qp.qscheme \notin SupportedQschemes
        THEN CtorOutcome("AssertionError", plain)
        ELSE IF qp.qscheme = "None"
        THEN CtorOutcome("none", plain)
        ELSE IF qp.qscheme = "per_channel_affine"
        THEN IF "axis" \in DOMAIN qp
             THEN CtorOutcome("none", plain @@ bufs @@ [weight_axis |-> qp.axis])
             ELSE CtorOutcome("KeyError", plain @@ bufs)
        ELSE CtorOutcome("none", plain @@ bufs @@ [weight_axis |-> 0])

(***************************************************************************)
(* Affine quantize / dequantize of the tensor library.                     *)
(***************************************************************************)
qmin(dtype) == IF dtype = "quint8" THEN 0 ELSE 0 - 128
qmax(dtype) == IF dtype = "quint8" THEN 255 ELSE 127

\* n / d rounded to the nearest integer, ties to even (d > 0)
RoundHalfEven(n, d) ==
    LET q == n \div d
        r == n % d
    IN  IF 2 * r < d THEN q
        ELSE IF 2 * r > d THEN q + 1
        ELSE IF q % 2 = 0 THEN q ELSE q + 1

Clamp(v, lo, hi) == IF v < lo THEN lo ELSE IF v > hi THEN hi ELSE v

Quantize(w, scale, zero_point, dtype) ==
    Clamp(RoundHalfEven(w, scale) + zero_point, qmin(dtype), qmax(dtype))

Dequantize(q, scale, zero_point) == (q - zero_point) * scale

QDQ(w, scale, zero_point, dtype) ==
    Dequantize(Quantize(w, scale, zero_point, dtype), scale, zero_point)

Dim(weight, axis) == IF axis = 0 THEN Len(weight) ELSE Len(weight[1])

\* The outcome of a method: the exception it raised and the value it returned.
Returned(value) == [raised |-> "none", value |-> value]
Raised(exc) == [raised |-> exc, value |-> <<>>]

_quantize_and_dequantize_weight(weight, qscheme, dtype, scale, zero_point, axis) ==
    IF qscheme = "per_tensor_affine"
    THEN Returned([r \in DOMAIN weight |-> [c \in DOMAIN weight[r] |->
                     QDQ(weight[r][c], scale[1], zero_point[1], dtype)]])
    ELSE IF qscheme = "per_channel_affine"
    THEN IF Len(scale) # Dim(weight, axis) \/ Len(zero_point) # Dim(weight, axis)
         THEN Raised("RuntimeError")
         ELSE Returned([r \in DOMAIN weight |-> [c \in DOMAIN weight[r] |->
                 LET ch == IF axis = 0 THEN r ELSE c
                 IN  QDQ(weight[r][c], scale[ch], zero_point[ch], dtype)]])
    ELSE Returned(weight)

\* Reading the attributes a method passes on raises when one was never set.
HasAttrs(l, names) == names \subseteq DOMAIN l.attrs

get_weight(l) ==
    IF ~HasAttrs(l, QparamKeys)
    THEN Raised("AttributeError")
    ELSE _quantize_and_dequantize_weight(
            l.weight, l.attrs.weight_qscheme, l.attrs.weight_dtype,
            l.attrs.weight_scale, l.attrs.weight_zero_point, l.attrs.weight_axis)

(***************************************************************************)
(* State persistence.                                                      *)
(***************************************************************************)
BufferNames == {"weight_scale", "weight_zero_point", "weight_axis"}

\* nn.Module._save_to_state_dict: the parameters and the registered buffers
Module_save_to_state_dict(l) ==
    [weight |-> l.weight] @@ [k \in (DOMAIN l.attrs) \cap BufferNames |-> l.attrs[k]]

_save_weight_qparams(destination, weight_qscheme, weight_dtype, weight_scale, weight_zero_point, weight_axis) ==
    [weight_qscheme |-> weight_qscheme, weight_dtype |-> weight_dtype,
     weight_scale |-> weight_scale, weight_zero_point |-> weight_zero_point,
     weight_axis |-> weight_axis] @@ destination

_save_to_state_dict(l) ==
    LET destination == Module_save_to_state_dict(l)
    IN  IF ~HasAttrs(l, QparamKeys)
        THEN Raised("AttributeError")
        ELSE Returned(_save_weight_qparams(destination,
                l.attrs.weight_qscheme, l.attrs.weight_dtype, l.attrs.weight_scale,
                l.attrs.weight_zero_point, l.attrs.weight_axis))

_get_weight_qparam_keys(sd) == QparamKeys \cap DOMAIN sd

\* nn.Module._load_from_state_dict: copies what it knows, and reports the
\* missing and the unexpected keys only when strict.
Module_load_from_state_dict(l, sd, strict) ==
    LET local == {"weight"} \cup ((DOMAIN l.attrs) \cap BufferNames)
    IN  [layer |-> [l EXCEPT !.weight = IF "weight" \in DOMAIN sd THEN sd.weight ELSE @,
                             !.attrs = [k \in DOMAIN l.attrs |->
                                          IF k \in BufferNames \cap DOMAIN sd
                                          THEN sd[k] ELSE l.attrs[k]]],
         missing_keys |-> IF strict THEN local \ DOMAIN sd ELSE {},
         unexpected_keys |-> IF strict THEN (DOMAIN sd) \ local ELSE {}]

_load_from_state_dict(l, sd) ==
    LET keys == _get_weight_qparam_keys(sd)
        set == [l EXCEPT !.attrs = [k \in (DOMAIN l.attrs) \cup keys |->
                                      IF k \in keys THEN sd[k] ELSE l.attrs[k]]]
        rest == [k \in (DOMAIN sd) \ keys |-> sd[k]]
    IN  Module_load_from_state_dict(set, rest, FALSE)

(***************************************************************************)
(* The explored layers.                                                    *)
(***************************************************************************)
LayerKinds == {"Linear", "Conv1d", "Conv2d", "Conv3d"}

ProbeVals == ((0 - WSpan) .. WSpan) \cup ((255 * Res - WSpan) .. (255 * Res + WSpan))
CoarseVals == {0 - 2 * Res, 128 * Res}

\* weights of shape [2, 1] and [1, 2]
Weights ==
    {<<<<a>>, <<b>>>> : a \in ProbeVals, b \in CoarseVals} \cup
    {<<<<a, b>>>> : a \in ProbeVals, b \in CoarseVals}

PerTensorQparams ==
    [qscheme : {"None", "per_tensor_affine", "per_tensor_symmetric"},
     dtype : {"quint8", "qint8"},
     scale : {<<Res>>, <<2 * Res>>},
     zero_point : {<<0>>, <<3>>}]

PerChannelQparams ==
    [qscheme : {"per_channel_affine", "per_channel_symmetric", "per_channel_affine_float_qparams"},
     dtype : {"quint8", "qint8"},
     scale : {<<Res, 2 * Res>>},
     zero_point : {<<0, 3>>},
     axis : {0, 1}]

PerChannelQparamsNoAxis ==
    [qscheme : {"per_channel_affine", "per_channel_symmetric"},
     dtype : {"quint8"},
     scale : {<<Res, 2 * Res>>},
     zero_point : {<<0, 3>>}]

WeightQparams == {NoneArg} \cup PerTensorQparams \cup PerChannelQparams \cup PerChannelQparamsNoAxis

NoLayer == [kind |-> "none", weight |-> <<>>, attrs |-> <<>>]
NoCtor == [kind |-> "none", weight_qparams |-> NoneArg, raised |-> "none"]
NoResult == [op |-> "none", raised |-> "none", value |-> <<>>]
NoLoad == [done |-> FALSE, missing_keys |-> {}, unexpected_keys |-> {}]
Result(op, r) == [op |-> op, raised |-> r.raised, value |-> r.value]

\* cls(..., weight_qparams=weight_qparams): the float constructor, then the
\* weight_qparams part; an exception leaves the caller without a layer.
Construct(kind, weight, weight_qparams) ==
    /\ LET out == IF kind = "Linear" THEN Linear__init__(weight_qparams)
                  ELSE _init_weight_qparams(weight_qparams)
       IN  /\ ctor' = [kind |-> kind, weight_qparams |-> weight_qparams, raised |-> out.raised]
           /\ layer' = IF out.raised = "none"
                       THEN [kind |-> kind, weight |-> weight, attrs |-> out.attrs]
                       ELSE NoLayer
    /\ dequant' = NoResult
    /\ state_dict' = NoResult
    /\ target' = NoLayer
    /\ loadOut' = NoLoad
    /\ UNCHANGED traceVars

GetWeight ==
    /\ layer # NoLayer
    /\ dequant' = Result("get_weight", get_weight(layer))
    /\ UNCHANGED <<layer, ctor, state_dict, target, loadOut>>
    /\ UNCHANGED traceVars

\* forward(x) on a vector of ones: F.linear / F.convNd with the dequantized weight
forward ==
    /\ layer # NoLayer
    /\ LET w == get_weight(layer)
       IN  dequant' = IF w.raised # "none" THEN Result("forward", w)
                      ELSE Result("forward", Returned(
                              [r \in DOMAIN w.value |->
                                 IF Len(w.value[r]) = 1 THEN w.value[r][1]
                                 ELSE w.value[r][1] + w.value[r][2]]))
    /\ UNCHANGED <<layer, ctor, state_dict, target, loadOut>>
    /\ UNCHANGED traceVars

SaveState ==
    /\ layer # NoLayer
    /\ state_dict' = Result("state_dict", _save_to_state_dict(layer))
    /\ UNCHANGED <<layer, ctor, dequant, target, loadOut>>
    /\ UNCHANGED traceVars

\* load_state_dict into a freshly constructed layer of the same kind
LoadState(weight_qparams) ==
    /\ state_dict.op = "state_dict" /\ state_dict.raised = "none"
    /\ LET out == IF layer.kind = "Linear" THEN Linear__init__(weight_qparams)
                  ELSE _init_weight_qparams(weight_qparams)
           fresh == [kind |-> layer.kind, weight |-> <<<<0>>, <<0>>>>, attrs |-> out.attrs]
           got == _load_from_state_dict(fresh, state_dict.value)
       IN  /\ out.raised = "none"
           /\ target' = got.layer
           /\ loadOut' = [done |-> TRUE, missing_keys |-> got.missing_keys,
                          unexpected_keys |-> got.unexpected_keys]
    /\ UNCHANGED <<layer, ctor, dequant, state_dict>>
    /\ UNCHANGED traceVars

LoadTargets ==
    {NoneArg,
     [qscheme |-> "None", dtype |-> "qint8", scale |-> <<Res>>, zero_point |-> <<0>>],
     [qscheme |-> "per_channel_affine", dtype |-> "qint8", scale |-> <<Res, Res>>,
      zero_point |-> <<0, 0>>, axis |-> 1]}

\* Before prepare is called and before a layer is constructed.
Init ==
    /\ callerModel = "float"
    /\ prepared = "none"
    /\ quantized = FALSE
    /\ lastCall = PipelineCall("none", FALSE, "none")
    /\ mode = "NONE"
    /\ idx_to_seen_ops = <<>>
    /\ idx = 0
    /\ pc = "idle"
    /\ err = NoError
    /\ live = <<>>
    /\ example_trace = <<>>
    /\ layer = NoLayer
    /\ ctor = NoCtor
    /\ dequant = NoResult
    /\ state_dict = NoResult
    /\ target = NoLayer
    /\ loadOut = NoLoad

\* The one constructor call of a behaviour.
ConstructLayer ==
    /\ ctor = NoCtor
    /\ \E kind \in LayerKinds, weight \in Weights, weight_qparams \in WeightQparams :
          Construct(kind, weight, weight_qparams)

LayerNext ==
    \/ ConstructLayer
    \/ GetWeight
    \/ forward
    \/ SaveState
    \/ \E weight_qparams \in LoadTargets : LoadState(weight_qparams)

SpecLayer == Init /\ [][LayerNext]_vars

Spec == Init /\ [][TraceNext]_vars

(***************************************************************************)
(* Vocabulary of the properties.                                           *)
(***************************************************************************)
\* The registry's rule, stated on its own: a registered function, or an
\* instance of a registered module type, subclasses included.
RegisteredOp(c) ==
    \/ c.kind = "func" /\ c.type \in {"relu", "add"}
    \/ c.kind = "mod" /\ Mro(c.type) \cap {"Conv2d", "Linear"} # {}

\* The types of the recognized operations of an executed sequence, in order.
RecognizedTypes(ops) ==
    LET r == SelectSeq(ops, RegisteredOp) IN [i \in 1 .. Len(r) |-> r[i].type]

LedgerTypes == [i \in 1 .. Len(idx_to_seen_ops) |-> idx_to_seen_ops[i].type]

IsPrefix(a, b) == Len(a) <= Len(b) /\ SubSeq(b, 1, Len(a)) = a

TraceExhaustedError(e) ==
    e.exc = "RuntimeError" /\ e.text = "fewer_operations_in_previous_runs"

TraceMismatchError(e) ==
    e.exc = "RuntimeError" /\ e.text = "previously_recorded_operation_was"

\* This step is the hook running for a recognized operation c.
HookStepOn(c) ==
    /\ pc = "running"
    /\ live' = Append(live, c)
    /\ RegisteredOp(c)

(***************************************************************************)
(* C1.  A verifying pass whose recognized operations so far are those the  *)
(* pass on the example inputs executed, in the same order, has raised no   *)
(* trace error; so a model that executes the same sequence on every call   *)
(* never raises one.                                                       *)
(***************************************************************************)
C1_StaticTraceRaisesNothing ==
    (mode = "VERIFYING" /\ IsPrefix(RecognizedTypes(live), RecognizedTypes(example_trace)))
        => (err = NoError /\ pc # "failed")

C1_Witness ==
    /\ mode = "VERIFYING" /\ pc = "idle" /\ err = NoError
    /\ RecognizedTypes(live) = RecognizedTypes(example_trace)
    /\ Len(RecognizedTypes(live)) >= 2
    /\ Len(live) > Len(RecognizedTypes(live))

(***************************************************************************)
(* C2.  A verifying pass that completed without an error executed exactly  *)
(* the recognized operations the pass on the example inputs executed.      *)
(***************************************************************************)
C2_AnyDivergenceRaises ==
    (mode = "VERIFYING" /\ pc = "idle"
        /\ RecognizedTypes(live) # RecognizedTypes(example_trace))
        => err # NoError

(***************************************************************************)
(* C3.  In VERIFYING mode a recognized operation met at an index equal to  *)
(* or beyond the ledger's length fails the pass with TraceExhaustedError   *)
(* naming that operation; the ledger is left as it was, nothing is         *)
(* quantized, and the failed pass runs no further operation.               *)
(***************************************************************************)
C3_ExhaustedLedgerFails ==
    [][ /\ \A c \in Candidates :
            (HookStepOn(c) /\ mode = "VERIFYING" /\ idx >= Len(idx_to_seen_ops))
                => /\ TraceExhaustedError(err')
                   /\ err'.names = <<c.type>>
                   /\ pc' = "failed"
                   /\ idx_to_seen_ops' = idx_to_seen_ops
                   /\ quantized' = quantized
        /\ (pc = "failed" /\ live' # <<>>) => (live' = live /\ err' = err) ]_vars

C3_Witness ==
    /\ mode = "VERIFYING" /\ pc = "failed"
    /\ TraceExhaustedError(err)
    /\ idx = Len(idx_to_seen_ops) /\ idx >= 1
    /\ err.names = <<live[Len(live)].type>>

(***************************************************************************)
(* C4.  In VERIFYING mode a recognized operation whose type differs from   *)
(* the type recorded at the current index fails the pass at that index     *)
(* with TraceMismatchError naming the encountered and the recorded         *)
(* operation; with the ledger of conv, linear, a replay running an         *)
(* activation after conv fails so at index 1.                              *)
(***************************************************************************)
C4_TypeMismatchFails ==
    [][ /\ \A c \in Candidates :
            (HookStepOn(c) /\ mode = "VERIFYING" /\ idx < Len(idx_to_seen_ops)
                /\ idx_to_seen_ops[idx + 1].type # c.type)
                => /\ TraceMismatchError(err')
                   /\ err'.names = <<c.type, idx_to_seen_ops[idx + 1].type>>
                   /\ pc' = "failed"
                   /\ idx' = idx
        /\ (mode' = "VERIFYING" /\ LedgerTypes' = <<"Conv2d", "Linear">>
                /\ RecognizedTypes(live') = <<"Conv2d", "relu">>)
                => /\ TraceMismatchError(err')
                   /\ err'.names = <<"relu", "Linear">>
                   /\ pc' = "failed"
                   /\ idx' = 1 ]_vars

C4_Witness ==
    /\ mode = "VERIFYING" /\ pc = "failed"
    /\ LedgerTypes = <<"Conv2d", "Linear">>
    /\ RecognizedTypes(live) = <<"Conv2d", "relu">>
    /\ TraceMismatchError(err) /\ err.names = <<"relu", "Linear">>
    /\ idx = 1

(***************************************************************************)
(* C5.  A prepare or convert call that asked for inplace and failed has    *)
(* left the model it was given as it was.                                  *)
(***************************************************************************)
C5_InplaceFailsBeforeAnyMutation ==
    (lastCall.inplace /\ lastCall.raised # "none")
        => (callerModel = "float" /\ prepared # "swapped")

(***************************************************************************)
(* C9.  In both modes the index of a pass is the number of recognized      *)
(* operations it has executed (less the one that raised, in a failed       *)
(* pass): it starts at 0, grows by one per recognized operation and not at *)
(* all for any other; while RECORDING the k-th ledger entry has idx k-1    *)
(* and the type of the k-th recognized operation.                          *)
(***************************************************************************)
C9_IndexCountsRecognizedOps ==
    /\ pc # "failed" => idx = Len(RecognizedTypes(live))
    /\ pc = "failed" => idx = Len(RecognizedTypes(live)) - 1
    /\ mode = "RECORDING" =>
          /\ Len(idx_to_seen_ops) = idx
          /\ \A k \in 1 .. Len(idx_to_seen_ops) :
                /\ idx_to_seen_ops[k].idx = k - 1
                /\ idx_to_seen_ops[k].type = RecognizedTypes(live)[k]

C9_Witness ==
    /\ mode = "VERIFYING" /\ pc = "running"
    /\ idx = 2 /\ Len(live) = 3
    /\ \E i \in 1 .. 3 : live[i] = Mod("MyConv2d")
    /\ \E i \in 1 .. 3 : ~RegisteredOp(live[i])

(***************************************************************************)
(* C10.  A forward call starts in RECORDING mode exactly when it is the    *)
(* first (no instrumented model has been handed out yet) and in VERIFYING  *)
(* mode otherwise; an instrumented model is handed out only after that     *)
(* first call, whose recognized operations are the ledger; once the first  *)
(* call has completed, no step, of a pass that succeeds or of one that     *)
(* raises, changes the ledger.                                             *)
(***************************************************************************)
C10_RecordOnceThenLedgerFrozen ==
    [][ /\ (pc # "running" /\ pc' = "running")
            => /\ (prepared = "none") => mode' = "RECORDING"
               /\ (prepared # "none") => mode' = "VERIFYING"
        /\ (prepared # "none") => idx_to_seen_ops' = idx_to_seen_ops
        /\ (prepared # "none") => /\ mode \in {"RECORDING", "VERIFYING"}
                                  /\ LedgerTypes = RecognizedTypes(example_trace) ]_vars

C10_Witness ==
    /\ mode = "VERIFYING" /\ pc = "failed"
    /\ Len(idx_to_seen_ops) >= 2
    /\ LedgerTypes = RecognizedTypes(example_trace)
    /\ \A k \in 1 .. Len(idx_to_seen_ops) : idx_to_seen_ops[k].idx = k - 1

(***************************************************************************)
(* Vocabulary of the layer properties.                                     *)
(***************************************************************************)
Abs(v) == IF v < 0 THEN 0 - v ELSE v

Elements(w) == {<<r, c>> : r \in DOMAIN w, c \in DOMAIN w[1]}

\* scale = 1.0, zero_point = 0, per-tensor-affine, quint8: given, or by default
TrivialQparams ==
    {NoneArg,
     [qscheme |-> "per_tensor_affine", dtype |-> "quint8", scale |-> <<Res>>,
      zero_point |-> <<0>>]}

GotWeight ==
    /\ layer # NoLayer
    /\ ctor.weight_qparams \in TrivialQparams
    /\ dequant.op = "get_weight"

(***************************************************************************)
(* C6.  A constructor call of any reference layer whose weight_qparams     *)
(* name a qscheme outside {None, per_tensor_affine, per_channel_affine}    *)
(* raises, hands no layer to the caller, and so precedes no method call;   *)
(* no layer in use has such a weight_qscheme.                              *)
(***************************************************************************)
C6_UnsupportedSchemeFailsAtConstruction ==
    /\ (ctor.kind # "none" /\ ctor.weight_qparams # NoneArg
          /\ ctor.weight_qparams.qscheme \notin {"None", "per_tensor_affine", "per_channel_affine"})
          => /\ ctor.raised # "none"
             /\ layer = NoLayer
             /\ dequant = NoResult /\ state_dict = NoResult /\ target = NoLayer
    /\ layer # NoLayer
          => layer.attrs.weight_qscheme \in {"None", "per_tensor_affine", "per_channel_affine"}

C6_Witness ==
    /\ ctor.kind = "Linear"
    /\ ctor.weight_qparams # NoneArg
    /\ ctor.weight_qparams.qscheme = "per_tensor_symmetric"
    /\ ctor.raised = "AssertionError"
    /\ layer = NoLayer

(***************************************************************************)
(* C7.  Saving the state of a reference Linear layer built with any        *)
(* supported scheme succeeds, and a layer that state is loaded into has    *)
(* the saved layer's weight_qscheme, weight_dtype, weight_scale,           *)
(* weight_zero_point and weight_axis (0 unless per-channel-affine), with   *)
(* none of the five keys reported as unexpected.                           *)
(***************************************************************************)
C7_SaveLoadKeepsQparams ==
    (layer.kind = "Linear" /\ state_dict.op = "state_dict")
        => /\ state_dict.raised = "none"
           /\ loadOut.done =>
                 /\ \A k \in QparamKeys :
                       /\ k \in DOMAIN target.attrs
                       /\ k \in DOMAIN layer.attrs
                       /\ target.attrs[k] = layer.attrs[k]
                 /\ layer.attrs.weight_qscheme # "per_channel_affine"
                       => target.attrs.weight_axis = 0
                 /\ loadOut.unexpected_keys \cap QparamKeys = {}

(***************************************************************************)
(* C8.  With scale 1.0 and zero_point 0 (per-tensor-affine, quint8),       *)
(* get_weight() returns every element within one quantization step (1.0)   *)
(* of the original.  As amended: every element that lies in the range      *)
(* quint8 represents at these parameters, 0.0 to 255.0.                    *)
(***************************************************************************)
C8_AnyElementWithinOneStep ==
    GotWeight =>
        /\ dequant.raised = "none"
        /\ \A e \in Elements(layer.weight) :
              Abs(dequant.value[e[1]][e[2]] - layer.weight[e[1]][e[2]]) <= Res

C8_InRangeElementWithinOneStep ==
    GotWeight =>
        /\ dequant.raised = "none"
        /\ \A e \in Elements(layer.weight) :
              (0 <= layer.weight[e[1]][e[2]] /\ layer.weight[e[1]][e[2]] <= 255 * Res)
                  => Abs(dequant.value[e[1]][e[2]] - layer.weight[e[1]][e[2]]) <= Res

C8_Witness ==
    /\ GotWeight /\ ctor.weight_qparams = NoneArg
    /\ dequant.raised = "none"
    /\ \E e \in Elements(layer.weight) :
          /\ 0 < layer.weight[e[1]][e[2]] /\ layer.weight[e[1]][e[2]] <= 255 * Res
          /\ dequant.value[e[1]][e[2]] # layer.weight[e[1]][e[2]]
    /\ \E e \in Elements(layer.weight) :
          /\ layer.weight[e[1]][e[2]] = 128 * Res
          /\ dequant.value[e[1]][e[2]] = 128 * Res

====
